---------------------------- MODULE Spec2Model ----------------------------
(***************************************************************************)
(* Hamming Weight Tree (rust-cv/hwt): the scalar and per-level search      *)
(* kernels (src/search/radius.rs, src/search/exact.rs), the k-best feature *)
(* heap (src/feature_heap.rs), the distance-indexed node queue             *)
(* (src/hamming_queue.rs) and the index itself (src/hwt.rs).               *)
(*                                                                         *)
(* A 128-bit word (a feature, or a CHF key) is modelled as the set of its  *)
(* one-bit positions, a subset of 0..127: popcount is Cardinality, XOR is  *)
(* the symmetric difference.  Nothing of the word is abstracted.           *)
(***************************************************************************)
EXTENDS Integers, Sequences, FiniteSets, TLC

VARIABLES
    TAU,          \* leaf-promotion threshold (hwt.rs:13), fixed per behaviour
    table_taus,   \* the TABLE_TAUS the code was built with (hwt.rs:21)
    internals,    \* Hwt.internals: the node slab, node 0 is the root
    count,        \* Hwt.count
    inserted,     \* history: the features passed to insert, in call order
    last,         \* the last completed public call and what it returned
    pc,           \* position inside a running nearest call ("idle" outside)
    nargs,        \* arguments of the running / last nearest call
    calls,        \* history: the number of nearest calls made so far
    returned,     \* history: the nearest calls that returned, with their results
    distance,     \* nearest: loop variable of `for distance in 0..=max_weight`
    node_queue,   \* the caller's NodeQueue   [distances, lowest]
    feature_heap, \* the caller's FeatureHeap
    offered,      \* history: the features passed to FeatureHeap::add since its reset
    tick,         \* nearest: the parity of the loop steps the running call has taken
    kin,          \* inputs of a search-kernel run
    kout          \* the kernel that ran and the sequence it emitted

vars == <<TAU, table_taus, internals, count, inserted, last, pc, nargs, calls,
          returned, distance, node_queue, feature_heap, offered, tick, kin, kout>>

-----------------------------------------------------------------------------
(* Bounds of the model *)

\* Largest `bits` (field width of one half) the scalar-kernel specification draws.
MaxBits == 3
\* Largest radius the scalar-kernel specification draws.
MaxRadius == 7
\* Largest radius the per-level kernels are run at.
MaxLevelRadius == 4
\* Largest promotion threshold drawn for TAU (the code's is 1 << 16).
MaxTau == 2
\* Insert calls of the index specification that draw any feature.
MaxInserts == 2
\* Most insert calls of a behaviour of the index specification; those after
\* the first MaxInserts repeat the last feature, which deepens its path.
MaxDeepInserts == 10
\* Most insert calls of a behaviour of the nearest specification.
MaxNearestInserts == 3
\* Largest radius of Hwt::search_radius.
MaxScanRadius == 3
\* Most nearest calls of a behaviour.
MaxCalls == 1
\* Longest `dest` slice handed to nearest.
MaxDest == 2
\* Largest max_error handed to nearest.
MaxError == 2
\* Most nearest calls of a behaviour that compares two calls on one index.
MaxPairCalls == 2
\* Most insert calls of a behaviour that compares two error budgets.
MaxMonoInserts == 4
\* Largest brute-force threshold drawn for the entries of TABLE_TAUS.
MaxTableTau == 3
\* Largest level handed to the functions of chf.rs (they accept up to 7).
MaxChfLevel == 8
\* FeatureHeap alone: the capacities, the offers and the search distances drawn
MaxHeapCap == 3
MaxOffers == 4
MaxSearchDistance == 3
\* NodeQueue alone: the entries a queue may hold at once
MaxQueueEntries == 3
\* nearest calls of the scratch specification
MaxScratchCalls == 3

-----------------------------------------------------------------------------
(* Word primitives *)

NBits == 128

Min(a, b) == IF a <= b THEN a ELSE b
Max(a, b) == IF a >= b THEN a ELSE b
Abs(x) == IF x >= 0 THEN x ELSE -x

\* Rust's `/` on i32 truncates toward zero; TLA+'s \div floors.
TruncDiv(a, b) == IF a >= 0 THEN a \div b ELSE -((-a) \div b)

\* lo..hi as a sequence (a Rust range `lo..=hi`), empty when hi < lo
RangeSeq(lo, hi) == IF hi < lo THEN <<>> ELSE [i \in 1..(hi - lo + 1) |-> lo + i - 1]

\* u128::count_ones
CountOnes(w) == Cardinality(w)

\* a ^ b
Xor(a, b) == (a \ b) \cup (b \ a)

\* ((1 << n) - 1) << base : n low ones of the field starting at bit `base`
Ones(n, base) == {base + i : i \in 0..(n - 1)}

-----------------------------------------------------------------------------
(* Scalar kernels *)

\* an interleave that stops with the shorter side (itertools' interleave_shortest
\* cut at the pair boundary)
interleave_shortest(a, b) ==
    LET m == Min(Len(a), Len(b))
    IN  [i \in 1..(2 * m) |-> IF i % 2 = 1 THEN a[(i + 1) \div 2] ELSE b[i \div 2]]

\* itertools::Itertools::interleave: alternate, starting with a; once one side
\* is exhausted the other is drained.
Interleave(a, b) ==
    LET m == Min(Len(a), Len(b))
        longer == IF Len(a) > Len(b) THEN a ELSE b
    IN  [i \in 1..(Len(a) + Len(b)) |->
            IF i > 2 * m THEN longer[i - m]
            ELSE IF i % 2 = 1 THEN a[(i + 1) \div 2] ELSE b[i \div 2]]

\* search::radius::search_radius : the sequence of <<tl, tr, sod>>
search_radius(bits, sl, sw, tw, radius) ==
    LET max == Min(tw, bits)
        min == tw - max
        c == 2 * sl - sw + tw
        filter(tl) == tl >= min /\ tl <= max
        sod(tl) == Abs(tl - sl) + Abs((tw - tl) - (sw - sl))
        bottom_distance == Abs(tw - sw)
        start == TruncDiv(-radius + c + 1, 2)
        inflection1 == sl
        inflection2 == sl - sw + tw
        min_inflection == Min(inflection1, inflection2)
        max_inflection == Max(inflection1, inflection2)
        end == TruncDiv(radius + c, 2)
        down == RangeSeq(start, min_inflection - 1)
        flat == RangeSeq(min_inflection, max_inflection)
        up == RangeSeq(max_inflection + 1, end)
        chained == IF bottom_distance <= radius
                   THEN flat \o Interleave(down, up)
                   ELSE <<>>
        kept == SelectSeq(chained, filter)
    IN  [i \in 1..Len(kept) |-> <<kept[i], tw - kept[i], sod(kept[i])>>]

\* search::exact::search_exact : the sequence of <<tl, tr>>
search_exact(bits, sl, sw, tw, radius) ==
    LET max == Min(tw, bits)
        min == tw - max
        filter(tl) == tl >= min /\ tl <= max
        c == 2 * sl - sw + tw
        bottom_distance == Abs(tw - sw)
        inflection1 == sl
        inflection2 == tw - (sw - sl)
        min_inflection == Min(inflection1, inflection2)
        max_inflection == Max(inflection1, inflection2)
        start == TruncDiv(-radius + c + 1, 2)
        end == TruncDiv(radius + c, 2)
        chained == IF bottom_distance = radius
                   THEN RangeSeq(min_inflection, max_inflection)
                   ELSE IF bottom_distance < radius
                        THEN <<start, end>>
                        ELSE <<>>
        kept == SelectSeq(chained, filter)
    IN  [i \in 1..Len(kept) |-> <<kept[i], tw - kept[i]>>]

-----------------------------------------------------------------------------
(* SWAR words: BitsW<u128> is a u128 read as 128/W fields of W bits.  A CHF   *)
(* word keeps each field's weight as that many low ones of the field (the     *)
(* encoding search_radius2 / search_exact2 write, radius.rs:192, exact.rs:182)*)

\* BitsW::pack_ones: pairs of `width`-bit fields become one 2*width-bit field
\* holding the sum of the two weights, again as low ones.
PackOnes(w, width) ==
    LET W2 == 2 * width
    IN  UNION { Ones(Cardinality({p \in w : p \div W2 = j}), j * W2)
                : j \in {p \div W2 : p \in w} }

\* BitsW::halve: the left (high) and the right (low) half of the fields, each
\* field spread into a field of twice the width.  <<left, right>>
Halve(w, width) ==
    LET half == NBits \div 2
    IN  << { ((p - half) \div width) * (2 * width) + (p % width)
             : p \in {x \in w : x >= half} },
           { (p \div width) * (2 * width) + (p % width)
             : p \in {x \in w : x < half} } >>

\* BitsW::union(left, right): the inverse of halve; the result has fields of
\* `width` bits.
Union(left, right, width) ==
    LET half == NBits \div 2
    IN  { half + (p \div (2 * width)) * width + (p % (2 * width)) : p \in left }
        \cup
        { (p \div (2 * width)) * width + (p % (2 * width)) : p \in right }

\* indices128(v)[n], n in 0..7: CHF<n> of v, 2^n fields of 128 / 2^n bits.
\* CHF<7> is v itself; each coarser level is pack_ones of the finer one.
RECURSIVE Chf(_, _)
Chf(v, n) == IF n = 7 THEN v ELSE PackOnes(Chf(v, n + 1), NBits \div (2 ^ (n + 1)))

IndicesOf(v) == [n \in 0..7 |-> Chf(v, n)]

\* The features drawn for insert and for queries: two of weight 1 in the low
\* half, one of weight 1 and one of weight 2 in the high half.
Features == {{0}, {1}, {64}, {64, 65}}

\* indices128 of the drawn features, computed once
IndexTable == [f \in Features |-> IndicesOf(f)]

indices128(v) == IF v \in Features THEN IndexTable[v] ELSE IndicesOf(v)

-----------------------------------------------------------------------------
(* Per-level kernels.  `fields` is the number of child fields: 2 for         *)
(* search_radius2 / search_exact2, ..., 128 for search_radius128 /           *)
(* search_exact128.                                                          *)

\* search::radius::search_radius2 : sequence of <<tc, sod>>
search_radius2(bits, sp, sc, tp, radius) ==
    LET sw == CountOnes(sp)
        sl == CountOnes({p \in sc : p >= 64})
        tw == CountOnes(tp)
        s == search_radius(bits, sl, sw, tw, radius)
    IN  [i \in 1..Len(s) |-> <<Ones(s[i][1], 64) \cup Ones(s[i][2], 0), s[i][3]>>]

\* search::exact::search_exact2 : sequence of tc
search_exact2(bits, sp, sc, tp, radius) ==
    LET sw == CountOnes(sp)
        sl == CountOnes({p \in sc : p >= 64})
        tw == CountOnes(tp)
        s == search_exact(bits, sl, sw, tw, radius)
    IN  [i \in 1..Len(s) |-> Ones(s[i][1], 64) \cup Ones(s[i][2], 0)]

\* search_radius4 .. search_radius128: the left half at `radius`, and for each
\* <<ltc, lsod>> the right half at radius - lsod (flat_map keeps that order).
RECURSIVE search_radiusL(_, _, _, _, _, _)
search_radiusL(fields, bits, sp, sc, tp, radius) ==
    IF fields = 2 THEN search_radius2(bits, sp, sc, tp, radius)
    ELSE
    LET cw == NBits \div fields
        hsp == Halve(sp, 2 * cw)
        hsc == Halve(sc, cw)
        htp == Halve(tp, 2 * cw)
        left == search_radiusL(fields \div 2, bits, hsp[1], hsc[1], htp[1], radius)
        row(i) ==
            LET right == search_radiusL(fields \div 2, bits, hsp[2], hsc[2], htp[2],
                                        radius - left[i][2])
            IN  [j \in 1..Len(right) |->
                    <<Union(left[i][1], right[j][1], cw), left[i][2] + right[j][2]>>]
        cat[i \in 1..(Len(left) + 1)] ==
            IF i > Len(left) THEN <<>> ELSE row(i) \o cat[i + 1]
    IN  cat[1]

\* search_exact4 .. search_exact128: the left half by search_radius at `radius`,
\* the right half by search_exact at radius - lsod.
RECURSIVE search_exactL(_, _, _, _, _, _)
search_exactL(fields, bits, sp, sc, tp, radius) ==
    IF fields = 2 THEN search_exact2(bits, sp, sc, tp, radius)
    ELSE
    LET cw == NBits \div fields
        hsp == Halve(sp, 2 * cw)
        hsc == Halve(sc, cw)
        htp == Halve(tp, 2 * cw)
        left == search_radiusL(fields \div 2, bits, hsp[1], hsc[1], htp[1], radius)
        row(i) ==
            LET right == search_exactL(fields \div 2, bits, hsp[2], hsc[2], htp[2],
                                       radius - left[i][2])
            IN  [j \in 1..Len(right) |-> Union(left[i][1], right[j], cw)]
        cat[i \in 1..(Len(left) + 1)] ==
            IF i > Len(left) THEN <<>> ELSE row(i) \o cat[i + 1]
    IN  cat[1]

-----------------------------------------------------------------------------
(* Canonical Hamming forms: src/chf.rs.  Here a field holds its weight as a  *)
(* binary number (chf.rs:141-153), and the words are still sets of bit       *)
(* positions.  A function that can panic returns [out, panic].               *)

\* w >> s
Shr(w, s) == {p - s : p \in {x \in w : x >= s}}

\* the borrow into bit i of a - b: the highest bit below i where a and b
\* differ is a bit of b
BorrowInto(a, b, i) ==
    LET differ == {j \in Xor(a, b) : j < i}
    IN  /\ differ # {}
        /\ (CHOOSE m \in differ : \A k \in differ : k <= m) \in b

\* a - b on u128, wrapped; `overflow` is the borrow out of bit 127, on which a
\* build with overflow checks panics
Sub(a, b) ==
    [out |-> {i \in 0..(NBits - 1) : ((i \in a) # (i \in b)) # BorrowInto(a, b, i)},
     overflow |-> BorrowInto(a, b, NBits)]

\* const CLHF_MASKS / CRHF_MASKS, entry k: the left / the right field of every
\* pair of fields of 64 / 2^k bits
CLHF_MASKS == [k \in 0..6 |-> {p \in 0..(NBits - 1) : (p \div (64 \div (2 ^ k))) % 2 = 1}]
CRHF_MASKS == [k \in 0..6 |-> {p \in 0..(NBits - 1) : (p \div (64 \div (2 ^ k))) % 2 = 0}]

\* chf::clhf_mask
RECURSIVE clhf_mask(_)
clhf_mask(level) ==
    IF level = 7 THEN [out |-> {p \in 0..(NBits - 1) : p % 2 = 1}, panic |-> FALSE]
    ELSE IF level \in 1..6
    THEN LET next == clhf_mask(level + 1)
         IN  [out |-> Shr(next.out, 2 * (7 - level)), panic |-> next.panic]
    ELSE [out |-> {}, panic |-> TRUE]

\* chf::chf_to_clhf
chf_to_clhf(chf, n) ==
    IF n \in 1..7 THEN [out |-> chf \cap CLHF_MASKS[n - 1], panic |-> FALSE]
    ELSE [out |-> {}, panic |-> TRUE]

\* chf::chf_to_crhf
chf_to_crhf(chf, n) ==
    IF n \in 1..7 THEN [out |-> chf \cap CRHF_MASKS[n - 1], panic |-> FALSE]
    ELSE [out |-> {}, panic |-> TRUE]

\* a compute_crhf that shifts by the width of the parent field
compute_crhf_parent_shift(chf, clhf, n) ==
    IF n \in 0..6
    THEN LET d == Sub(chf, Shr(clhf, 2 ^ (7 - n)))
         IN  [out |-> d.out, panic |-> FALSE, overflow |-> d.overflow]
    ELSE [out |-> {}, panic |-> TRUE, overflow |-> FALSE]

\* chf::compute_crhf
compute_crhf(chf, clhf, n) ==
    IF n \in 0..6
    THEN LET d == Sub(chf, Shr(clhf, 2 ^ (6 - n)))
         IN  [out |-> d.out, panic |-> FALSE, overflow |-> d.overflow]
    ELSE [out |-> {}, panic |-> TRUE, overflow |-> FALSE]

-----------------------------------------------------------------------------
(* The index: src/hwt.rs.  A node is Internal::Vec(v) or Internal::Map(m);   *)
(* a map is kept as its <<key, child>> bindings in insertion order (HashMap  *)
(* iteration order is unspecified; results are compared as multisets and by  *)
(* distance, which do not depend on it).                                     *)
(* Node numbers are those of the code (the root is 0), so node i is          *)
(* internals[i + 1].                                                         *)

VecNode(v) == [kind |-> "Vec", v |-> v, m |-> <<>>]
MapNode(m) == [kind |-> "Map", v |-> <<>>, m |-> m]

\* Internal::default()
DefaultInternal == VecNode(<<>>)

\* Hwt::default(): internals = vec![Internal::default()], count = 0
DefaultInternals == <<DefaultInternal>>

\* map.iter().find(|(k, _)| k == key) / map.get(&key): the child bound to key,
\* -1 when there is none
MapGet(m, key) ==
    IF \E i \in 1..Len(m) : m[i][1] = key
    THEN m[CHOOSE i \in 1..Len(m) : m[i][1] = key][2]
    ELSE -1

\* a promotion that forgets to re-bin the features of the leaf
convert_drops_leaf(ints, internal, level) ==
    [ints EXCEPT ![internal + 1] = MapNode(<<>>)]

\* a promotion that keys every new map by indices[0], whatever its level
convert_keys_by_weight(ints, internal, level) ==
    LET old == ints[internal + 1].v
        st[i \in 0..Len(old)] ==
            IF i = 0
            THEN [ints |-> [ints EXCEPT ![internal + 1] = VecNode(<<>>)], map |-> <<>>]
            ELSE LET prev == st[i - 1]
                     feature == old[i]
                     index == indices128(feature)[0]
                     found == MapGet(prev.map, index)
                     new_internal == IF found = -1 THEN Len(prev.ints) ELSE found
                     slab == IF found = -1 THEN Append(prev.ints, DefaultInternal)
                             ELSE prev.ints
                     map == IF found = -1 THEN Append(prev.map, <<index, new_internal>>)
                            ELSE prev.map
                 IN  [ints |-> [slab EXCEPT ![new_internal + 1].v = Append(@, feature)],
                      map |-> map]
        fin == st[Len(old)]
    IN  [fin.ints EXCEPT ![internal + 1] = MapNode(fin.map)]

\* Hwt::convert: the Vec at `internal` becomes a Map keyed by indices128(f)[level];
\* every distinct key gets a freshly allocated Vec (allocate_internal pushes
\* Internal::default() and returns its index), the features keep their order.
convert(ints, internal, level) ==
    LET old == ints[internal + 1].v
        \* st[i]: the slab and the map after re-binning the first i features
        st[i \in 0..Len(old)] ==
            IF i = 0
            THEN [ints |-> [ints EXCEPT ![internal + 1] = VecNode(<<>>)], map |-> <<>>]
            ELSE LET prev == st[i - 1]
                     feature == old[i]
                     index == indices128(feature)[level]
                     found == MapGet(prev.map, index)
                     new_internal == IF found = -1 THEN Len(prev.ints) ELSE found
                     slab == IF found = -1 THEN Append(prev.ints, DefaultInternal)
                             ELSE prev.ints
                     map == IF found = -1 THEN Append(prev.map, <<index, new_internal>>)
                            ELSE prev.map
                 IN  [ints |-> [slab EXCEPT ![new_internal + 1].v = Append(@, feature)],
                      map |-> map]
        fin == st[Len(old)]
    IN  [fin.ints EXCEPT ![internal + 1] = MapNode(fin.map)]

\* an insert that also promotes the bucket at the bottom of the tree
RECURSIVE InsertWalk_promotes_bottom(_, _, _, _, _)
InsertWalk_promotes_bottom(ints, tau, feature, bucket, i) ==
    LET node == ints[bucket + 1] IN
    IF i = 8
    THEN \* the loop ran out with create_internal = None: the bottom of the tree
         IF node.kind = "Vec"
         THEN LET pushed == [ints EXCEPT ![bucket + 1].v = Append(@, feature)]
              IN  [ints |-> IF Len(pushed[bucket + 1].v) > tau
                            THEN convert(pushed, bucket, 7)
                            ELSE pushed,
                   panic |-> FALSE]
         ELSE [ints |-> ints, panic |-> TRUE]
    ELSE IF node.kind = "Vec"
    THEN LET pushed == [ints EXCEPT ![bucket + 1].v = Append(@, feature)]
         IN  [ints |-> IF Len(pushed[bucket + 1].v) > tau
                       THEN convert(pushed, bucket, i)
                       ELSE pushed,
              panic |-> FALSE]
    ELSE LET tc == indices128(feature)[i]
             internal == MapGet(node.m, tc)
         IN  IF internal # -1
             THEN InsertWalk_promotes_bottom(ints, tau, feature, internal, i + 1)
             ELSE \* vacant: allocate a Vec, push the feature, bind the key
                  [ints |-> Append([ints EXCEPT ![bucket + 1].m =
                                        Append(@, <<tc, Len(ints)>>)],
                                   VecNode(<<feature>>)),
                   panic |-> FALSE]

\* Hwt::insert, the walk `for (i, &tc) in indices.iter().enumerate()` from
\* (bucket, i) on.  Returns [ints, panic].
RECURSIVE InsertWalk(_, _, _, _, _)
InsertWalk(ints, tau, feature, bucket, i) ==
    LET node == ints[bucket + 1] IN
    IF i = 8
    THEN \* the loop ran out with create_internal = None: the bottom of the tree
         IF node.kind = "Vec"
         THEN [ints |-> [ints EXCEPT ![bucket + 1].v = Append(@, feature)], panic |-> FALSE]
         ELSE [ints |-> ints, panic |-> TRUE]
    ELSE IF node.kind = "Vec"
    THEN LET pushed == [ints EXCEPT ![bucket + 1].v = Append(@, feature)]
         IN  [ints |-> IF Len(pushed[bucket + 1].v) > tau
                       THEN convert(pushed, bucket, i)
                       ELSE pushed,
              panic |-> FALSE]
    ELSE LET tc == indices128(feature)[i]
             internal == MapGet(node.m, tc)
         IN  IF internal # -1
             THEN InsertWalk(ints, tau, feature, internal, i + 1)
             ELSE \* vacant: allocate a Vec, push the feature, bind the key
                  [ints |-> Append([ints EXCEPT ![bucket + 1].m =
                                        Append(@, <<tc, Len(ints)>>)],
                                   VecNode(<<feature>>)),
                   panic |-> FALSE]

\* Hwt::contains
RECURSIVE ContainsWalk(_, _, _, _)
ContainsWalk(ints, feature, bucket, i) ==
    LET node == ints[bucket + 1] IN
    IF i = 8 THEN FALSE
    ELSE IF node.kind = "Vec"
    THEN \E n \in 1..Len(node.v) : node.v[n] = feature
    ELSE LET internal == MapGet(node.m, indices128(feature)[i])
         IN  IF internal = -1 THEN FALSE
             ELSE ContainsWalk(ints, feature, internal, i + 1)

\* a contains that reports a feature as soon as a bucket for its weight exists
contains_finds_bucket(ints, feature) ==
    IF ints[1].kind = "Vec" THEN ints[1].v # <<>>
    ELSE MapGet(ints[1].m, indices128(feature)[0]) # -1

Hwt_contains(ints, feature) == ContainsWalk(ints, feature, 0, 0)

\* Hwt::len / Hwt::is_empty
Hwt_len(cnt) == cnt
Hwt_is_empty(cnt) == Hwt_len(cnt) = 0

\* The key filter of the scan at depth `level`: search_radius (depth 0) tests
\* against indices128(feature)[1], radius2 against [2], ..., radius64 against [7].
RadiusFilter(radius, feature, level, tc) ==
    CountOnes(Xor(tc, indices128(feature)[level + 1])) <= radius

\* Hwt::bucket_scan_radius for the scan function of depth `level`
\* (0: search_radius, 1: radius2, ..., 6: radius64, 7: radius128).
\* Returns [out, panic]: what the drained iterator yields, and whether draining
\* it panics (radius128 panics on every key of a map); `out` then holds what
\* the buckets that do not panic yield.
RECURSIVE bucket_scan_radius(_, _, _, _, _)
bucket_scan_radius(ints, radius, feature, bucket, level) ==
    LET node == ints[bucket + 1] IN
    IF node.kind = "Vec"
    THEN [out |-> SelectSeq(node.v, LAMBDA leaf : CountOnes(Xor(leaf, feature)) <= radius),
          panic |-> FALSE]
    ELSE IF level = 7
    THEN [out |-> <<>>, panic |-> node.m # <<>>]
    ELSE LET sub(i) == bucket_scan_radius(ints, radius, feature, node.m[i][2], level + 1)
             acc[i \in 0..Len(node.m)] ==
                 IF i = 0 THEN [out |-> <<>>, panic |-> FALSE]
                 ELSE IF RadiusFilter(radius, feature, level, node.m[i][1])
                      THEN LET s == sub(i)
                           IN  [out |-> acc[i - 1].out \o s.out,
                                panic |-> acc[i - 1].panic \/ s.panic]
                      ELSE acc[i - 1]
         IN  acc[Len(node.m)]

\* a scan whose leaf test is off by one
search_radius_off_by_one(ints, radius, feature) ==
    bucket_scan_radius(ints, radius + 1, feature, 0, 0)

\* Hwt::search_radius
Hwt_search_radius(ints, radius, feature) ==
    bucket_scan_radius(ints, radius, feature, 0, 0)

-----------------------------------------------------------------------------
(* FeatureHeap: src/feature_heap.rs.  `panic` records a failed assert or     *)
(* unwrap inside an operation.                                               *)

EmptyBuckets == [d \in 0..128 |-> <<>>]

\* FeatureHeap::default()
DefaultFeatureHeap ==
    [cap |-> 0, size |-> 0, in_search |-> 0, search_distance |-> 0,
     search |-> {}, worst |-> 128, features |-> EmptyBuckets, panic |-> FALSE]

\* a reset that leaves the buckets as the last search filled them
FH_reset_keeps_features(h, cap, search) ==
    [cap |-> cap, size |-> 0, in_search |-> 0, search_distance |-> 0,
     search |-> search, worst |-> 128, features |-> h.features,
     panic |-> cap = 0]

\* FeatureHeap::reset
FH_reset(h, cap, search) ==
    [cap |-> cap, size |-> 0, in_search |-> 0, search_distance |-> 0,
     search |-> search, worst |-> 128, features |-> EmptyBuckets,
     panic |-> cap = 0]

\* a search_distance whose slice runs one bucket too far
FH_search_distance_one_more(h, dist) ==
    LET upto == Min(128, dist + 1)
        counted == {d \in (h.search_distance + 1)..upto : h.features[d] # <<>>}
        RECURSIVE sum(_)
        sum(ds) == IF ds = {} THEN 0
                   ELSE LET d == CHOOSE x \in ds : TRUE
                        IN  Len(h.features[d]) + sum(ds \ {d})
    IN  [h EXCEPT !.in_search = @ + sum(counted), !.search_distance = dist]

\* FeatureHeap::search_distance: counts the features of the newly covered
\* buckets into in_search
FH_search_distance(h, dist) ==
    LET RECURSIVE sum(_, _)
        sum(lo, hi) == IF lo > hi THEN 0
                       ELSE IF lo = hi THEN Len(h.features[lo])
                       ELSE sum(lo, (lo + hi) \div 2) + sum((lo + hi) \div 2 + 1, hi)
    IN  IF dist < h.search_distance
        THEN [h EXCEPT !.panic = TRUE]
        ELSE [h EXCEPT !.in_search = @ + sum(h.search_distance + 1, dist),
                       !.search_distance = dist]

\* FeatureHeap::update_worst
FH_update_worst(h) ==
    LET nonempty == {d \in 0..h.worst : h.features[d] # <<>>}
    IN  IF nonempty = {} THEN [h EXCEPT !.panic = TRUE]
        ELSE [h EXCEPT !.worst = CHOOSE d \in nonempty : \A e \in nonempty : e <= d]

\* FeatureHeap::remove_worst (Vec::pop on an empty bucket is a no-op)
FH_remove_worst(h) ==
    FH_update_worst(
        [h EXCEPT !.features[h.worst] =
                      IF @ = <<>> THEN @ ELSE SubSeq(@, 1, Len(@) - 1)])

\* an add that also takes a feature as far as the worst one
FH_add_ties(h, feature) ==
    LET dist == CountOnes(Xor(feature, h.search))
        h1 == IF dist <= h.search_distance THEN [h EXCEPT !.in_search = @ + 1] ELSE h
    IN  IF h1.size # h1.cap
        THEN LET h2 == [h1 EXCEPT !.features[dist] = Append(@, feature),
                                  !.size = @ + 1]
             IN  IF h2.size = h2.cap THEN FH_update_worst(h2) ELSE h2
        ELSE IF dist <= h1.worst
             THEN [h1 EXCEPT !.features[dist] = Append(@, feature)]
             ELSE h1

\* an add that counts every offer as within the search distance
FH_add_counts_every_offer(h, feature) ==
    LET dist == CountOnes(Xor(feature, h.search))
        h1 == [h EXCEPT !.in_search = @ + 1]
    IN  IF h1.size # h1.cap
        THEN LET h2 == [h1 EXCEPT !.features[dist] = Append(@, feature),
                                  !.size = @ + 1]
             IN  IF h2.size = h2.cap THEN FH_update_worst(h2) ELSE h2
        ELSE IF dist < h1.worst
             THEN FH_remove_worst([h1 EXCEPT !.features[dist] = Append(@, feature)])
             ELSE h1

\* FeatureHeap::add
FH_add(h, feature) ==
    LET dist == CountOnes(Xor(feature, h.search))
        h1 == IF dist <= h.search_distance THEN [h EXCEPT !.in_search = @ + 1] ELSE h
    IN  IF h1.size # h1.cap
        THEN LET h2 == [h1 EXCEPT !.features[dist] = Append(@, feature),
                                  !.size = @ + 1]
             IN  IF h2.size = h2.cap THEN FH_update_worst(h2) ELSE h2
        ELSE IF dist < h1.worst
             THEN FH_remove_worst([h1 EXCEPT !.features[dist] = Append(@, feature)])
             ELSE h1

\* for f in leaves { heap.add(f) }
FH_add_all(h, leaves) ==
    LET acc[i \in 0..Len(leaves)] ==
            IF i = 0 THEN h ELSE FH_add(acc[i - 1], leaves[i])
    IN  acc[Len(leaves)]

\* a done that fires as soon as the heap is full
FH_done_when_full(h) == h.size >= h.cap

\* FeatureHeap::done
FH_done(h) == h.in_search >= h.cap

\* a fill_slice that walks the buckets from the farthest to the nearest
FH_fill_slice_reversed(h, s) ==
    LET RECURSIVE flat(_, _)
        flat(lo, hi) == IF lo = hi THEN h.features[lo]
                        ELSE flat((lo + hi) \div 2 + 1, hi) \o flat(lo, (lo + hi) \div 2)
        all == flat(0, 128)
        total_fill == Min(Len(s), h.size)
    IN  [ix \in 1..total_fill |-> IF ix <= Len(all) THEN all[ix] ELSE s[ix]]

\* FeatureHeap::fill_slice: the buckets flattened in distance order are
\* copied over the first min(|s|, size) slots of s, and that prefix is returned
FH_fill_slice(h, s) ==
    LET RECURSIVE flat(_, _)
        flat(lo, hi) == IF lo = hi THEN h.features[lo]
                        ELSE flat(lo, (lo + hi) \div 2) \o flat((lo + hi) \div 2 + 1, hi)
        all == flat(0, 128)
        total_fill == Min(Len(s), h.size)
    IN  [ix \in 1..total_fill |-> IF ix <= Len(all) THEN all[ix] ELSE s[ix]]

-----------------------------------------------------------------------------
(* NodeQueue: src/hamming_queue.rs.  An entry is <<node, level>>: the map    *)
(* the code holds by reference is the one of internals[node + 1].            *)

\* NodeQueue::new / NodeQueue::clear
NQ_clear == [distances |-> EmptyBuckets, lowest |-> 0]

\* NodeQueue::add_one
NQ_add_one(q, dist, node, level) ==
    [q EXCEPT !.distances[dist] = Append(@, <<node, level>>)]

\* NodeQueue::distance: the first nonempty bucket at or after `lowest`,
\* -1 for None
NQ_distance(q) ==
    LET nonempty == {d \in q.lowest..128 : q.distances[d] # <<>>}
    IN  IF nonempty = {} THEN -1
        ELSE CHOOSE d \in nonempty : \A e \in nonempty : d <= e

\* a pop that tests `lowest == 128` before it looks into the bucket
NQ_pop_gives_up_at_128(q) ==
    LET d == NQ_distance(q)
    IN  IF d = -1 \/ d = 128 THEN [q |-> [q EXCEPT !.lowest = 128], entry |-> <<>>]
        ELSE [q |-> [q EXCEPT !.lowest = d,
                              !.distances[d] = SubSeq(@, 1, Len(@) - 1)],
              entry |-> <<d>> \o q.distances[d][Len(q.distances[d])]]

\* NodeQueue::pop: advances `lowest` to the first nonempty bucket and takes
\* its last entry; [q, entry] with entry = <<>> for None
NQ_pop(q) ==
    LET d == NQ_distance(q)
    IN  IF d = -1 THEN [q |-> [q EXCEPT !.lowest = 128], entry |-> <<>>]
        ELSE [q |-> [q EXCEPT !.lowest = d,
                              !.distances[d] = SubSeq(@, 1, Len(@) - 1)],
              entry |-> <<d>> \o q.distances[d][Len(q.distances[d])]]

-----------------------------------------------------------------------------
(* Hwt::nearest (src/hwt.rs), one step per loop iteration.                   *)

\* const TABLE_TAUS: the map sizes under which a node is scanned by brute force
TABLE_TAUS == [level \in 0..6 |-> 0]

\* The body shared by the root expansion, the brute-force scan and the
\* precision search: for each <<child_distance, child>> in order, a leaf's
\* features go to the heap (the call returns as soon as the heap is done), a
\* map is queued at child_distance with `level`.  [h, q, ret, offered], where
\* offered lists the features handed to FeatureHeap::add
ExpandChildren(ints, h, q, cands, level) ==
    LET acc[i \in 0..Len(cands)] ==
            IF i = 0 THEN [h |-> h, q |-> q, ret |-> FALSE, offered |-> <<>>]
            ELSE LET prev == acc[i - 1]
                     child == ints[cands[i][2] + 1]
                 IN  IF prev.ret THEN prev
                     ELSE IF child.kind = "Vec"
                     THEN LET h2 == FH_add_all(prev.h, child.v)
                          IN  [h |-> h2, q |-> prev.q, ret |-> FH_done(h2) \/ h2.panic,
                               offered |-> prev.offered \o child.v]
                     ELSE [h |-> prev.h,
                           q |-> NQ_add_one(prev.q, cands[i][1], cands[i][2], level),
                           ret |-> FALSE, offered |-> prev.offered]
    IN  acc[Len(cands)]

\* a root expansion that leaves out the bindings at exactly max_weight
RootCandidates_below_max_weight(m, feature, max_weight) ==
    LET all == [i \in 1..Len(m) |->
                   <<CountOnes(Xor(m[i][1], indices128(feature)[0])), m[i][2]>>]
    IN  SelectSeq(all, LAMBDA c : c[1] < max_weight)

\* the root's bindings within max_weight of indices[0], as <<distance, node>>
RootCandidates(m, feature, max_weight) ==
    LET all == [i \in 1..Len(m) |->
                   <<CountOnes(Xor(m[i][1], indices128(feature)[0])), m[i][2]>>]
    IN  SelectSeq(all, LAMBDA c : c[1] <= max_weight)

\* brute force: every binding of the map, as <<child_distance, child>>
BruteCandidates(m, feature, level) ==
    [i \in 1..Len(m) |->
        <<CountOnes(Xor(m[i][1], indices128(feature)[level + 1])), m[i][2]>>]

\* precision search: the keys search_exact2 .. search_exact128 emit for the
\* map queued at `level`, those bound in the map, as <<child_distance, child>>
PrecisionCandidates(m, feature, level, dist) ==
    LET indices == indices128(feature)
        w == 64 \div (2 ^ level)
        tp == PackOnes(m[1][1], w)
        tcs == search_exactL(2 ^ (level + 1), w, indices[level], indices[level + 1],
                             tp, dist)
        hit == SelectSeq(tcs, LAMBDA tc : MapGet(m, tc) # -1)
    IN  [i \in 1..Len(hit) |->
            <<CountOnes(Xor(hit[i], indices[level + 1])), MapGet(m, hit[i])>>]

NoCall == [op |-> "none", feature |-> {}, radius |-> 0, out |-> <<>>,
           found |-> FALSE, panic |-> FALSE]
NoArgs == [feature |-> {}, max_weight |-> 0, max_error |-> 0, dest |-> <<>>]

\* `return feature_heap.fill_slice(dest)`, or the unwinding of a panic
NearestReturn(h) ==
    /\ pc' = "idle"
    /\ returned' = Append(returned,
           [feature |-> nargs'.feature, max_weight |-> nargs'.max_weight,
            max_error |-> nargs'.max_error, k |-> Len(nargs'.dest),
            taus |-> table_taus, len |-> Len(inserted),
            out |-> IF h.panic THEN <<>> ELSE FH_fill_slice(h, nargs'.dest),
            panic |-> h.panic])
    /\ last' = [NoCall EXCEPT !.op = "nearest", !.feature = nargs'.feature,
                              !.out = IF h.panic THEN <<>>
                                      ELSE FH_fill_slice(h, nargs'.dest),
                              !.panic = h.panic]

\* nearest up to the `for distance in 0..=max_weight` loop: clear, reset,
\* expand the root
NearestCall(feature, max_weight, max_error, dest) ==
    /\ pc = "idle"
    /\ nargs' = [feature |-> feature, max_weight |-> max_weight,
                 max_error |-> max_error, dest |-> dest]
    /\ calls' = calls + 1
    /\ LET h0 == FH_reset(feature_heap, Len(dest), feature)
           root == internals[1]
           r == IF h0.panic
                THEN [h |-> h0, q |-> NQ_clear, ret |-> TRUE, offered |-> <<>>]
                ELSE IF root.kind = "Vec"
                THEN [h |-> FH_add_all(h0, root.v), q |-> NQ_clear, ret |-> TRUE,
                      offered |-> root.v]
                ELSE ExpandChildren(internals, h0, NQ_clear,
                                    RootCandidates(root.m, feature, max_weight), 0)
       IN  /\ feature_heap' = r.h
           /\ offered' = r.offered
           /\ tick' = 0
           /\ node_queue' = r.q
           /\ distance' = 0
           /\ IF r.ret THEN NearestReturn(r.h)
              ELSE /\ pc' = "search"
                   /\ last' = [NoCall EXCEPT !.op = "nearest_running",
                                             !.feature = feature]
                   /\ UNCHANGED returned
    /\ UNCHANGED <<TAU, table_taus, internals, count, inserted, kin, kout>>

\* a loop head that grants only the parity of max_error as budget
NearestSearchDistance_error_parity ==
    /\ pc = "search"
    /\ UNCHANGED <<TAU, table_taus, internals, count, inserted, nargs, calls, distance, node_queue,
                   offered, kin, kout>>
    /\ tick' = 1 - tick
    /\ LET h == FH_search_distance(feature_heap, Min(128, distance + (nargs.max_error % 2)))
       IN  /\ feature_heap' = h
           /\ IF FH_done(h) \/ h.panic THEN NearestReturn(h)
              ELSE pc' = "queue" /\ UNCHANGED <<last, returned>>

\* a loop head that tells the heap the distance of the next shell
NearestSearchDistance_one_ahead ==
    /\ pc = "search"
    /\ UNCHANGED <<TAU, table_taus, internals, count, inserted, nargs, calls, distance, node_queue,
                   offered, kin, kout>>
    /\ tick' = 1 - tick
    /\ LET h == FH_search_distance(feature_heap,
                                   Min(128, distance + 1 + nargs.max_error))
       IN  /\ feature_heap' = h
           /\ IF FH_done(h) \/ h.panic THEN NearestReturn(h)
              ELSE pc' = "queue" /\ UNCHANGED <<last, returned>>

\* the head of one iteration of the distance loop
NearestSearchDistance ==
    /\ pc = "search"
    /\ UNCHANGED <<TAU, table_taus, internals, count, inserted, nargs, calls, distance, node_queue,
                   offered, kin, kout>>
    /\ tick' = 1 - tick
    /\ LET h == FH_search_distance(feature_heap, Min(128, distance + nargs.max_error))
       IN  /\ feature_heap' = h
           /\ IF FH_done(h) \/ h.panic THEN NearestReturn(h)
              ELSE pc' = "queue" /\ UNCHANGED <<last, returned>>

\* the children the node <<node, level>> offers at `dist`: brute force under
\* TABLE_TAUS[level] bindings, the precision search otherwise
NodeCandidates(ints, node, level, feature, dist) ==
    IF Len(ints[node + 1].m) < table_taus[level]
    THEN BruteCandidates(ints[node + 1].m, feature, level)
    ELSE PrecisionCandidates(ints[node + 1].m, feature, level, dist)

\* one iteration of `while node_queue.distance() == Some(distance)`; the
\* popped entry is <<distance, node, level>>
NearestNode ==
    /\ pc = "queue"
    /\ NQ_distance(node_queue) = distance
    /\ UNCHANGED <<TAU, table_taus, internals, count, inserted, nargs, calls, distance, kin, kout>>
    /\ tick' = 1 - tick
    /\ \E p \in {NQ_pop(node_queue)} :
           IF p.entry[3] = 7
           THEN /\ feature_heap' = [feature_heap EXCEPT !.panic = TRUE]
                /\ UNCHANGED offered
                /\ node_queue' = p.q
                /\ NearestReturn(feature_heap')
           ELSE \E cands \in {NodeCandidates(internals, p.entry[2], p.entry[3],
                                             nargs.feature, distance)} :
                \E r \in {ExpandChildren(internals, feature_heap, p.q, cands,
                                         p.entry[3] + 1)} :
                    /\ feature_heap' = r.h
                    /\ offered' = offered \o r.offered
                    /\ IF r.ret
                       THEN node_queue' = r.q /\ NearestReturn(r.h)
                       ELSE /\ node_queue' =
                                IF /\ Len(internals[p.entry[2] + 1].m)
                                          >= table_taus[p.entry[3]]
                                   /\ distance # 128
                                THEN NQ_add_one(r.q, distance + 1, p.entry[2], p.entry[3])
                                ELSE r.q
                            /\ UNCHANGED <<pc, last, returned>>

\* an end of shell that starts the same shell again
NearestNextDistance_stays ==
    /\ pc = "queue"
    /\ NQ_distance(node_queue) # distance
    /\ UNCHANGED <<TAU, table_taus, internals, count, inserted, nargs, calls, node_queue, feature_heap, offered,
                   kin, kout>>
    /\ tick' = 1 - tick
    /\ IF distance < nargs.max_weight
       THEN UNCHANGED distance /\ pc' = "search" /\ UNCHANGED <<last, returned>>
       ELSE UNCHANGED distance /\ NearestReturn(feature_heap)

\* the queue holds nothing at `distance`: the next distance, or the end of the
\* loop and the final fill_slice
NearestNextDistance ==
    /\ pc = "queue"
    /\ NQ_distance(node_queue) # distance
    /\ UNCHANGED <<TAU, table_taus, internals, count, inserted, nargs, calls, node_queue, feature_heap, offered,
                   kin, kout>>
    /\ tick' = 1 - tick
    /\ IF distance < nargs.max_weight
       THEN distance' = distance + 1 /\ pc' = "search" /\ UNCHANGED <<last, returned>>
       ELSE UNCHANGED distance /\ NearestReturn(feature_heap)

-----------------------------------------------------------------------------
(* Inputs *)

\* max_weight values handed to nearest
MaxWeights == {1, 128}

NoKernel == [kind |-> "none", bits |-> 0, sl |-> 0, sw |-> 0, tw |-> 0, radius |-> 0,
             level |-> 0, s |-> {}, t |-> {}]
NoOutput == [op |-> "none", out |-> <<>>]

\* scalar inputs within the documented domain: sl <= bits, sw - sl <= bits,
\* tw <= 2 * bits
ScalarInputs ==
    {[NoKernel EXCEPT !.kind = "scalar", !.bits = b, !.sl = sl, !.sw = sw, !.tw = tw,
                      !.radius = r] :
        b \in 1..MaxBits, sl \in 0..MaxBits, sw \in 0..(2 * MaxBits),
        tw \in 0..(2 * MaxBits), r \in 0..MaxRadius}

\* per-level inputs: the kernel of level n (2^(n+1) child fields) searching
\* from feature s towards the parent weights of feature t
LevelInputs ==
    {[NoKernel EXCEPT !.kind = "level", !.level = n, !.s = s, !.t = t, !.radius = r] :
        n \in 0..6, s \in Features, t \in Features, r \in 0..MaxLevelRadius}

\* CHF<n> of the feature v in the encoding of chf.rs: each of the 2^n fields
\* holds the weight of its part of v as a binary number
BinaryChf(v, n) ==
    LET W == NBits \div (2 ^ n)
        weight(j) == Cardinality({p \in v : p \div W = j})
    IN  UNION {{j * W + b : b \in {x \in 0..7 : (weight(j) \div (2 ^ x)) % 2 = 1}}
                  : j \in {p \div W : p \in v}}

\* the features whose CHFs are handed to chf.rs: light ones, full and
\* half-full ones, and a mixed one
ChfFeatures ==
    Features \cup {0..(NBits - 1), 0..63, {p \in 0..(NBits - 1) : p % 2 = 1},
                   {0, 1, 2, 5, 64, 127}}

\* inputs of chf.rs: a level n, s = CHF<n> and t = CHF<n + 1> of one feature
\* (so every field of s is the sum of its two fields of t); from level 7 on
\* the words are the feature itself
ChfInputs ==
    {[NoKernel EXCEPT !.kind = "chf", !.level = n, !.s = BinaryChf(v, Min(n, 7)),
                      !.t = BinaryChf(v, Min(n + 1, 7))] :
        n \in 0..MaxChfLevel, v \in ChfFeatures}

-----------------------------------------------------------------------------
(* Actions of the index *)

\* Hwt::insert
Insert(feature) ==
    /\ pc = "idle"
    /\ LET r == InsertWalk(internals, TAU, feature, 0, 0)
       IN  /\ internals' = r.ints
           /\ last' = [NoCall EXCEPT !.op = "insert", !.feature = feature,
                                     !.panic = r.panic]
    /\ count' = count + 1
    /\ inserted' = Append(inserted, feature)
    /\ UNCHANGED <<TAU, table_taus, pc, nargs, calls, returned, distance, node_queue, feature_heap, offered, tick, kin, kout>>

\* a contains that uses its `&mut self`: it counts the lookup
Contains_counts(feature) ==
    /\ pc = "idle"
    /\ last' = [NoCall EXCEPT !.op = "contains", !.feature = feature,
                              !.found = Hwt_contains(internals, feature)]
    /\ count' = count + 1
    /\ UNCHANGED <<TAU, table_taus, internals, inserted, pc, nargs, calls, returned, distance,
                   node_queue, feature_heap, offered, tick, kin, kout>>

\* Hwt::contains
Contains(feature) ==
    /\ pc = "idle"
    /\ last' = [NoCall EXCEPT !.op = "contains", !.feature = feature,
                              !.found = Hwt_contains(internals, feature)]
    /\ UNCHANGED <<TAU, table_taus, internals, count, inserted, pc, nargs, calls, returned, distance, node_queue,
                   feature_heap, offered, tick, kin, kout>>

\* Hwt::search_radius, the returned iterator drained
SearchRadius(radius, feature) ==
    /\ pc = "idle"
    /\ LET r == Hwt_search_radius(internals, radius, feature)
       IN  last' = [NoCall EXCEPT !.op = "search_radius", !.feature = feature,
                                  !.radius = radius, !.out = r.out, !.panic = r.panic]
    /\ UNCHANGED <<TAU, table_taus, internals, count, inserted, pc, nargs, calls, returned, distance, node_queue,
                   feature_heap, offered, tick, kin, kout>>

\* the crate built with another TABLE_TAUS (a const of hwt.rs, so the change
\* happens between calls, never inside one)
Rebuild(taus) ==
    /\ pc = "idle"
    /\ table_taus' = taus
    /\ UNCHANGED <<TAU, internals, count, inserted, last, pc, nargs, calls, returned,
                   distance, node_queue, feature_heap, offered, tick, kin, kout>>

-----------------------------------------------------------------------------
(* Actions of the heap specification: FeatureHeap driven directly *)

\* the features offered to the heap and the features searched for
HeapOffers == {{}, {0}, {0, 1}, {0, 1, 2}}
HeapSearches == {{}, {0}}

HeapUnchanged ==
    UNCHANGED <<TAU, table_taus, internals, count, inserted, last, pc, nargs, calls,
                returned, distance, node_queue, tick, kin, kout>>

\* feature_heap.reset(cap, search)
HeapReset(cap, search) ==
    /\ feature_heap' = FH_reset(feature_heap, cap, search)
    /\ offered' = <<>>
    /\ HeapUnchanged

\* feature_heap.add(feature)
HeapAdd(feature) ==
    /\ feature_heap' = FH_add(feature_heap, feature)
    /\ offered' = Append(offered, feature)
    /\ HeapUnchanged

\* feature_heap.search_distance(dist)
HeapSearchDistance(dist) ==
    /\ feature_heap' = FH_search_distance(feature_heap, dist)
    /\ UNCHANGED offered
    /\ HeapUnchanged

-----------------------------------------------------------------------------
(* Actions of the queue specification: a NodeQueue driven directly.  LeafQueue *)
(* (hamming_queue.rs:225-275) has the same four bodies over another entry     *)
(* type, here a node number again.                                            *)

\* the distances, nodes and levels entries are queued with
QueueDistances == {0, 1, 2, 128}
QueueNodes == {1, 2}

QueueUnchanged ==
    UNCHANGED <<TAU, table_taus, internals, count, inserted, pc, nargs, calls,
                returned, distance, feature_heap, offered, tick, kin, kout>>

\* the entries a queue holds, as <<distance, position in the bucket>>
QueueSlots(q) == UNION {{<<d, i>> : i \in 1..Len(q.distances[d])} : d \in 0..128}

\* node_queue.clear()
QueueClear ==
    /\ node_queue' = NQ_clear
    /\ last' = [NoCall EXCEPT !.op = "clear"]
    /\ QueueUnchanged

\* node_queue.add_one((dist, node, level))
QueueAddOne(dist, node, level) ==
    /\ node_queue' = NQ_add_one(node_queue, dist, node, level)
    /\ last' = [NoCall EXCEPT !.op = "add_one", !.radius = dist]
    /\ QueueUnchanged

\* node_queue.pop(); out is the entry, <<>> for None
QueuePop ==
    /\ \E p \in {NQ_pop(node_queue)} :
           /\ node_queue' = p.q
           /\ last' = [NoCall EXCEPT !.op = "pop", !.out = p.entry]
    /\ QueueUnchanged

\* node_queue.distance(); out is <<distance>>, <<>> for None
QueueDistance ==
    /\ UNCHANGED node_queue
    /\ last' = [NoCall EXCEPT !.op = "distance",
                              !.out = IF NQ_distance(node_queue) = -1 THEN <<>>
                                      ELSE <<NQ_distance(node_queue)>>]
    /\ QueueUnchanged

-----------------------------------------------------------------------------
(* Actions of the kernel specification *)

KernelUnchanged ==
    UNCHANGED <<TAU, table_taus, internals, count, inserted, last, pc, nargs, calls, returned, distance, node_queue,
                feature_heap, offered, tick, kin>>

\* search::search_radius(bits, sl, sw, tw, radius).collect()
RunSearchRadius ==
    /\ kin.kind = "scalar" /\ kout.op = "none"
    /\ kout' = [op |-> "search_radius",
                out |-> search_radius(kin.bits, kin.sl, kin.sw, kin.tw, kin.radius)]
    /\ KernelUnchanged

\* search::search_exact(bits, sl, sw, tw, radius).collect()
RunSearchExact ==
    /\ kin.kind = "scalar" /\ kout.op = "none"
    /\ kout' = [op |-> "search_exact",
                out |-> search_exact(kin.bits, kin.sl, kin.sw, kin.tw, kin.radius)]
    /\ KernelUnchanged

LevelBits(n) == NBits \div (2 ^ (n + 1))

\* search_radius2 .. search_radius128 on the CHFs of two features
RunSearchRadiusL ==
    /\ kin.kind = "level" /\ kout.op = "none"
    /\ kout' = [op |-> "search_radiusL",
                out |-> search_radiusL(2 ^ (kin.level + 1), LevelBits(kin.level),
                                       indices128(kin.s)[kin.level],
                                       indices128(kin.s)[kin.level + 1],
                                       indices128(kin.t)[kin.level], kin.radius)]
    /\ KernelUnchanged

\* search_exact2 .. search_exact128 on the CHFs of two features
RunSearchExactL ==
    /\ kin.kind = "level" /\ kout.op = "none"
    /\ kout' = [op |-> "search_exactL",
                out |-> search_exactL(2 ^ (kin.level + 1), LevelBits(kin.level),
                                      indices128(kin.s)[kin.level],
                                      indices128(kin.s)[kin.level + 1],
                                      indices128(kin.t)[kin.level], kin.radius)]
    /\ KernelUnchanged

\* chf::clhf_mask(level)
RunClhfMask ==
    /\ kin.kind = "chf" /\ kout.op = "none"
    /\ kout' = [op |-> "clhf_mask", out |-> clhf_mask(kin.level)]
    /\ KernelUnchanged

\* chf::chf_to_clhf(CHF<n + 1>, n + 1)
RunChfToClhf ==
    /\ kin.kind = "chf" /\ kout.op = "none"
    /\ kout' = [op |-> "chf_to_clhf", out |-> chf_to_clhf(kin.t, kin.level + 1)]
    /\ KernelUnchanged

\* chf::chf_to_crhf(CHF<n + 1>, n + 1)
RunChfToCrhf ==
    /\ kin.kind = "chf" /\ kout.op = "none"
    /\ kout' = [op |-> "chf_to_crhf", out |-> chf_to_crhf(kin.t, kin.level + 1)]
    /\ KernelUnchanged

\* chf::compute_crhf(CHF<n>, chf_to_clhf(CHF<n + 1>, n + 1), n); a build with
\* overflow checks panics when the subtraction underflows
RunComputeCrhf ==
    /\ kin.kind = "chf" /\ kout.op = "none"
    /\ \E checks \in BOOLEAN :
       \E r \in {compute_crhf(kin.s, chf_to_clhf(kin.t, kin.level + 1).out, kin.level)} :
           kout' = [op |-> "compute_crhf",
                    out |-> [out |-> r.out, panic |-> r.panic \/ (checks /\ r.overflow)]]
    /\ KernelUnchanged

-----------------------------------------------------------------------------
(* Specifications *)

\* Hwt::new() with a fresh NodeQueue and FeatureHeap; no kernel run
InitIndex ==
    /\ table_taus = TABLE_TAUS
    /\ returned = <<>>
    /\ internals = DefaultInternals
    /\ count = 0
    /\ inserted = <<>>
    /\ last = NoCall
    /\ pc = "idle"
    /\ nargs = NoArgs
    /\ calls = 0
    /\ distance = 0
    /\ node_queue = NQ_clear
    /\ feature_heap = DefaultFeatureHeap
    /\ offered = <<>>
    /\ tick = 0

Init ==
    /\ TAU \in 1..MaxTau
    /\ InitIndex
    /\ kin = NoKernel
    /\ kout = NoOutput

\* insert, contains and search_radius in any order
Next ==
    \/ \E f \in Features :
           /\ \/ Len(inserted) < MaxInserts
              \/ /\ Len(inserted) > 0
                 /\ Len(inserted) < MaxDeepInserts
                 /\ f = inserted[Len(inserted)]
           /\ Insert(f)
    \/ \E f \in Features : Contains(f)
    \/ \E r \in 0..MaxScanRadius, f \in Features : SearchRadius(r, f)

Spec == Init /\ [][Next]_vars

\* insert and nearest in any order, nearest one loop iteration at a time
NextNearest ==
    \/ \E f \in Features : Len(inserted) < MaxNearestInserts /\ Insert(f)
    \/ \E f \in Features, mw \in MaxWeights, e \in 0..MaxError, n \in 1..MaxDest :
           calls < MaxCalls /\ NearestCall(f, mw, e, [i \in 1..n |-> {}])
    \/ NearestSearchDistance
    \/ NearestNode
    \/ NearestNextDistance

SpecNearest == Init /\ [][NextNearest]_vars

\* an index is built and read: contains and search_radius at any time, one
\* nearest call once the inserts are over
NextReads ==
    \/ \E f \in Features : calls = 0 /\ Len(inserted) < MaxNearestInserts /\ Insert(f)
    \/ \E f \in Features : Contains(f)
    \/ \E r \in {0, MaxScanRadius}, f \in Features : SearchRadius(r, f)
    \/ \E f \in Features, mw \in MaxWeights, e \in {0, MaxError}, n \in 1..MaxDest :
           calls < MaxCalls /\ NearestCall(f, mw, e, [i \in 1..n |-> {}])
    \/ NearestSearchDistance
    \/ NearestNode
    \/ NearestNextDistance

SpecReads == Init /\ [][NextReads]_vars

\* an index is built, then nearest is called twice for the same query with a
\* destination of length 1 and max_weight = 128, the second time with one more
\* unit of max_error
NextMono ==
    \/ \E f \in Features : calls = 0 /\ Len(inserted) < MaxMonoInserts /\ Insert(f)
    \/ \E f \in Features, e \in 0..MaxError :
           /\ calls < MaxPairCalls
           /\ (calls > 0) => (f = nargs.feature /\ e = nargs.max_error + 1)
           /\ NearestCall(f, 128, e, <<{}>>)
    \/ NearestSearchDistance
    \/ NearestNode
    \/ NearestNextDistance

SpecMono == Init /\ [][NextMono]_vars

\* the assignments of TABLE_TAUS drawn: one threshold for every level
TableTaus == {[level \in 0..6 |-> t] : t \in 0..MaxTableTau}

\* an index is built, then nearest is called twice with the same arguments and
\* max_error = 0, the crate possibly rebuilt with other thresholds in between
NextTaus ==
    \/ \E f \in Features : calls = 0 /\ Len(inserted) < MaxNearestInserts /\ Insert(f)
    \/ \E taus \in TableTaus : calls = 1 /\ table_taus = TABLE_TAUS /\ Rebuild(taus)
    \/ \E f \in Features, mw \in MaxWeights, n \in 1..MaxDest :
           /\ calls < MaxPairCalls
           /\ (calls > 0) => /\ f = nargs.feature
                             /\ mw = nargs.max_weight
                             /\ n = Len(nargs.dest)
           /\ NearestCall(f, mw, 0, [i \in 1..n |-> {}])
    \/ NearestSearchDistance
    \/ NearestNode
    \/ NearestNextDistance

SpecTaus == Init /\ [][NextTaus]_vars

InitKernel ==
    /\ TAU = 1
    /\ InitIndex
    /\ kin \in {k \in ScalarInputs : k.sl <= k.bits /\ k.sw >= k.sl
                                     /\ k.sw - k.sl <= k.bits /\ k.tw <= 2 * k.bits}
               \cup LevelInputs
    /\ kout = NoOutput

NextKernel ==
    \/ RunSearchRadius
    \/ RunSearchExact
    \/ RunSearchRadiusL
    \/ RunSearchExactL

SpecKernel == InitKernel /\ [][NextKernel]_vars

InitChf ==
    /\ TAU = 1
    /\ InitIndex
    /\ kin \in ChfInputs
    /\ kout = NoOutput

NextChf ==
    \/ RunClhfMask
    \/ RunChfToClhf
    \/ RunChfToCrhf
    \/ RunComputeCrhf

SpecChf == InitChf /\ [][NextChf]_vars

\* a FeatureHeap is reset with a capacity of at least one, then offered
\* features and told search distances that never decrease
NextHeap ==
    \/ \E cap \in 1..MaxHeapCap, search \in HeapSearches : HeapReset(cap, search)
    \/ \E f \in HeapOffers :
           feature_heap.cap >= 1 /\ Len(offered) < MaxOffers /\ HeapAdd(f)
    \/ \E dist \in 0..MaxSearchDistance :
           /\ feature_heap.cap >= 1
           /\ dist >= feature_heap.search_distance
           /\ HeapSearchDistance(dist)

InitHeap ==
    /\ TAU = 1
    /\ InitIndex
    /\ kin = NoKernel
    /\ kout = NoOutput

SpecHeap == InitHeap /\ [][NextHeap]_vars

\* a NodeQueue is cleared, added to and popped in any order, no entry being
\* added below the cursor `lowest`
NextQueue ==
    \/ QueueClear
    \/ \E dist \in QueueDistances, node \in QueueNodes :
           /\ dist >= node_queue.lowest
           /\ Cardinality(QueueSlots(node_queue)) < MaxQueueEntries
           /\ QueueAddOne(dist, node, 0)
    \/ QueuePop
    \/ QueueDistance

SpecQueue == InitHeap /\ [][NextQueue]_vars

\* an index is built, then nearest is called three times with the caller's one
\* NodeQueue and FeatureHeap: first with any arguments on the fresh scratch,
\* then with any query, then with the first arguments again on what the second
\* call left behind
NextScratch ==
    \/ \E f \in Features : calls = 0 /\ Len(inserted) < MaxNearestInserts /\ Insert(f)
    \/ \E f \in Features, e \in {0, MaxError}, n \in 1..MaxDest :
           /\ calls < MaxScratchCalls
           /\ (calls = 1) => (e = MaxError /\ n = MaxDest)
           /\ (calls >= 2) => /\ f = returned[1].feature
                              /\ e = returned[1].max_error
                              /\ n = returned[1].k
           /\ NearestCall(f, 128, e, [i \in 1..n |-> {}])
    \/ NearestSearchDistance
    \/ NearestNode
    \/ NearestNextDistance

SpecScratch == Init /\ [][NextScratch]_vars

\* an index is built and nearest is called once; nearest is sequential code,
\* so a started call takes its next step.  Every step of the call flips
\* `tick` and nothing else does, so the fairness condition names the steps by it.
\* dest may have one slot more than the index has features, which takes the
\* call through every shell up to max_weight.
NextRuns ==
    \/ \E f \in Features : calls = 0 /\ Len(inserted) < MaxNearestInserts /\ Insert(f)
    \/ \E f \in Features, mw \in MaxWeights, e \in {0, MaxError},
          n \in (1..MaxDest) \cup {Len(inserted) + 1} :
           calls < MaxCalls /\ NearestCall(f, mw, e, [i \in 1..n |-> {}])
    \/ NearestSearchDistance
    \/ NearestNode
    \/ NearestNextDistance

\* a step of the running call, told by the step parity alone
Running == pc # "idle" /\ tick' = 1 - tick

SpecNearestRuns == Init /\ [][NextRuns]_vars /\ WF_tick(Running)

-----------------------------------------------------------------------------
(* Properties of the canonical forms (checked under SpecChf) *)

\* the shifted CLHF that compute_crhf subtracts at level n
ShiftedClhf(t, n) == Shr(chf_to_clhf(t, n + 1).out, 2 ^ (6 - n))

\* C19: for n in 0..6 and CHF<n>, CHF<n + 1> of one feature, compute_crhf of
\* CHF<n> and the CLHF of CHF<n + 1> equals the CRHF of CHF<n + 1>, the
\* subtraction borrows into no first bit of a field of CHF<n> nor out of the
\* word, and the CLHF and the CRHF of CHF<n + 1> are disjoint and make it up.
C19_RightFromParent ==
    kout.op = "compute_crhf" /\ kin.level \in 0..6 =>
        /\ ~kout.out.panic
        /\ kout.out.out = chf_to_crhf(kin.t, kin.level + 1).out
        /\ \A j \in 1..(2 ^ kin.level) :
               ~BorrowInto(kin.s, ShiftedClhf(kin.t, kin.level),
                           j * (NBits \div (2 ^ kin.level)))
        /\ chf_to_clhf(kin.t, kin.level + 1).out
               \cap chf_to_crhf(kin.t, kin.level + 1).out = {}
        /\ chf_to_clhf(kin.t, kin.level + 1).out
               \cup chf_to_crhf(kin.t, kin.level + 1).out = kin.t

\* a run below the top level with non-zero left and right weights in which
\* the subtraction did borrow, inside a field
C19_Witness ==
    /\ kout.op = "compute_crhf" /\ kin.level \in 1..6
    /\ ~kout.out.panic /\ kout.out.out # {}
    /\ ShiftedClhf(kin.t, kin.level) # {}
    /\ \E i \in 0..(NBits - 1) : BorrowInto(kin.s, ShiftedClhf(kin.t, kin.level), i)

\* C20: for every level in 1..7 clhf_mask(level) returns CLHF_MASKS[level - 1],
\* the mask chf_to_clhf applies at that level, and for every other level it
\* panics.
C20_ClhfMaskIsTableMask ==
    kout.op = "clhf_mask" =>
        IF kin.level \in 1..7
        THEN ~kout.out.panic /\ kout.out.out = CLHF_MASKS[kin.level - 1]
        ELSE kout.out.panic

-----------------------------------------------------------------------------
(* Properties of the search kernels (checked under SpecKernel) *)

\* the sum of distances of the split <<tl, tw - tl>> from <<sl, sw - sl>>
Sod(sl, sw, tw, tl) == Abs(tl - sl) + Abs((tw - tl) - (sw - sl))

\* C9: the tl values search_exact emits are exactly the tl in
\* [max(0, tw - bits), min(tw, bits)] whose sum of distances equals radius.
C9_ExactKernelEmitsExactlyRadius ==
    kout.op = "search_exact" =>
        {kout.out[i][1] : i \in 1..Len(kout.out)} =
        {tl \in Max(0, kin.tw - kin.bits)..Min(kin.tw, kin.bits) :
            Sod(kin.sl, kin.sw, kin.tw, tl) = kin.radius}

\* C10: every element emitted by the scalar search_radius, and by each
\* per-level search_radius kernel, has a sum of distances no smaller than that
\* of the element emitted before it.
C10_RadiusKernelNondecreasingSod ==
    /\ kout.op = "search_radius" =>
           \A i \in 2..Len(kout.out) : kout.out[i][3] >= kout.out[i - 1][3]
    /\ kout.op = "search_radiusL" =>
           \A i \in 2..Len(kout.out) : kout.out[i][2] >= kout.out[i - 1][2]

\* C11: within the documented domain, search_radius emits every tl of
\* [max(0, tw - bits), min(tw, bits)] whose sum of distances is at most radius
\* exactly once and nothing else, each with tr = tw - tl and its true sum of
\* distances; it emits nothing when radius < |tw - sw|.
C11_RadiusKernelExactSet ==
    kout.op = "search_radius" =>
        /\ {kout.out[i][1] : i \in 1..Len(kout.out)} =
           {tl \in Max(0, kin.tw - kin.bits)..Min(kin.tw, kin.bits) :
               Sod(kin.sl, kin.sw, kin.tw, tl) <= kin.radius}
        /\ \A i, j \in 1..Len(kout.out) : kout.out[i][1] = kout.out[j][1] => i = j
        /\ \A i \in 1..Len(kout.out) :
               /\ kout.out[i][2] = kin.tw - kout.out[i][1]
               /\ kout.out[i][3] = Sod(kin.sl, kin.sw, kin.tw, kout.out[i][1])
        /\ kin.radius < Abs(kin.tw - kin.sw) => kout.out = <<>>

\* a run that emitted the flat bottom and both slopes, and left out a tl of the
\* range that lies beyond the radius
C11_Witness ==
    /\ kout.op = "search_radius"
    /\ \E i, j, k \in 1..Len(kout.out) :
           /\ kout.out[i][3] = Abs(kin.tw - kin.sw)
           /\ kout.out[j][1] < kout.out[i][1] /\ kout.out[j][3] > kout.out[i][3]
           /\ kout.out[k][1] > kout.out[i][1] /\ kout.out[k][3] > kout.out[i][3]
    /\ \E tl \in Max(0, kin.tw - kin.bits)..Min(kin.tw, kin.bits) :
           Sod(kin.sl, kin.sw, kin.tw, tl) > kin.radius

\* the child words (fields of cw bits) consistent with the parent word tp
\* (fields of 2 * cw bits): every parent weight split into a left and a right
\* weight of at most cw each
ChildTuples(tp, cw) ==
    LET P == {p \div (2 * cw) : p \in tp}
        wt(j) == Cardinality({p \in tp : p \div (2 * cw) = j})
        splits == {g \in [P -> 0..Min(cw, Cardinality(tp))] :
                      \A j \in P : g[j] <= wt(j) /\ wt(j) - g[j] <= cw}
    IN  {UNION {Ones(g[j], j * 2 * cw + cw) \cup Ones(wt(j) - g[j], j * 2 * cw) : j \in P}
            : g \in splits}

\* C12: the child tuples a kernel search_exact4 .. search_exact128 emits are
\* exactly the child tuples consistent with the target parent whose summed
\* weight difference from the query child equals the radius.
C12_LevelExactKernelExact ==
    kout.op = "search_exactL" /\ kin.level >= 1 =>
        {kout.out[i] : i \in 1..Len(kout.out)} =
        {tc \in ChildTuples(indices128(kin.t)[kin.level], LevelBits(kin.level)) :
            CountOnes(Xor(tc, indices128(kin.s)[kin.level + 1])) = kin.radius}

-----------------------------------------------------------------------------
(* Properties of the index (checked under Spec) *)

\* occurrences of x in the sequence s
Count(s, x) == Cardinality({i \in 1..Len(s) : s[i] = x})

Distance(a, b) == CountOnes(Xor(a, b))

\* the features of the leaf buckets under `node`, and the depth of the
\* deepest bucket under it
RECURSIVE LeavesUnder(_, _)
LeavesUnder(ints, node) ==
    LET n == ints[node + 1]
        cat[i \in 0..Len(n.m)] ==
            IF i = 0 THEN <<>> ELSE cat[i - 1] \o LeavesUnder(ints, n.m[i][2])
    IN  IF n.kind = "Vec" THEN n.v ELSE cat[Len(n.m)]

RECURSIVE DepthUnder(_, _)
DepthUnder(ints, node) ==
    LET n == ints[node + 1]
        deepest[i \in 0..Len(n.m)] ==
            IF i = 0 THEN 0 ELSE Max(deepest[i - 1], 1 + DepthUnder(ints, n.m[i][2]))
    IN  IF n.kind = "Vec" THEN 0 ELSE deepest[Len(n.m)]

\* C1: search_radius(r, q) yields every stored occurrence of every feature
\* within distance r of q.
C1_RadiusComplete ==
    last.op = "search_radius" =>
        \A f \in Features :
            Distance(f, last.feature) <= last.radius =>
                Count(last.out, f) >= Count(inserted, f)

\* C2: contains(f) is true for every feature f that was inserted, at whatever
\* depth its bucket lies.
C2_ContainsEveryInserted ==
    /\ \A i \in 1..Len(inserted) : Hwt_contains(internals, inserted[i])
    /\ last.op = "contains" /\ Count(inserted, last.feature) > 0 => last.found

\* C15: draining the iterator search_radius returns never panics, whatever
\* the inserts that built the index, the radius and the query.
C15_RadiusInfallible ==
    last.op = "search_radius" => ~last.panic

\* C17: contains(f) is false for every feature f that was never inserted,
\* whatever other features were inserted.
C17_ContainsOnlyInserted ==
    /\ \A f \in Features : Count(inserted, f) = 0 => ~Hwt_contains(internals, f)
    /\ last.op = "contains" /\ Count(inserted, last.feature) = 0 => ~last.found

\* below a promoted root, contains looked for a feature that was never inserted
\* and that shares every weight tuple CHF_0 .. CHF_6 with an inserted one
C17_Witness ==
    /\ last.op = "contains" /\ ~last.found
    /\ Count(inserted, last.feature) = 0
    /\ internals[1].kind = "Map"
    /\ \E i \in 1..Len(inserted) :
           \A n \in 0..6 : indices128(inserted[i])[n] = indices128(last.feature)[n]

\* C5: every feature search_radius(r, q) yields is within distance r of q and
\* is yielded at most as often as it was inserted.
C5_RadiusSound ==
    last.op = "search_radius" =>
        /\ \A i \in 1..Len(last.out) : Distance(last.out[i], last.feature) <= last.radius
        /\ \A i \in 1..Len(last.out) :
               Count(last.out, last.out[i]) <= Count(inserted, last.out[i])

\* a scan of a promoted root that yielded some stored features and left out
\* one that is too far
C5_Witness ==
    /\ last.op = "search_radius"
    /\ internals[1].kind = "Map"
    /\ Len(last.out) >= 2
    /\ \E i \in 1..Len(inserted) : Distance(inserted[i], last.feature) > last.radius

\* C8: len() is the number of insert calls and the number of features held
\* in the leaf buckets, which hold exactly the inserted multiset; is_empty()
\* is true exactly when nothing was inserted.
C8_LenCountsInserts ==
    /\ Hwt_len(count) = Len(inserted)
    /\ Hwt_len(count) = Len(LeavesUnder(internals, 0))
    /\ \A f \in Features : Count(LeavesUnder(internals, 0), f) = Count(inserted, f)
    /\ Hwt_is_empty(count) <=> inserted = <<>>

\* duplicates were inserted and a leaf below the root was promoted
C8_Witness ==
    /\ DepthUnder(internals, 0) >= 2
    /\ \E i, j \in 1..Len(inserted) : i # j /\ inserted[i] = inserted[j]
    /\ \E i, j \in 1..Len(inserted) : inserted[i] # inserted[j]

-----------------------------------------------------------------------------
(* Properties of nearest (checked under SpecNearest) *)

\* a nearest call has returned normally
NearestReturned == pc = "idle" /\ last.op = "nearest" /\ ~last.panic

\* the smallest distance from q to an inserted feature
MinDistance(q) ==
    CHOOSE d \in 0..128 :
        /\ \E i \in 1..Len(inserted) : Distance(inserted[i], q) = d
        /\ \A i \in 1..Len(inserted) : Distance(inserted[i], q) >= d

\* how many of the n features of s nearest to q lie at distance d from q
NearestAt(s, q, n, d) ==
    LET at == Cardinality({i \in 1..Len(s) : Distance(s[i], q) = d})
        below == Cardinality({i \in 1..Len(s) : Distance(s[i], q) < d})
    IN  Max(0, Min(at, n - below))

\* C3: on a non-empty index, nearest with max_weight = 128, max_error = 0 and
\* a destination of length 1 returns one feature at the minimum distance from
\* the query over all inserted features.
C3_NearestExactOptimal ==
    /\ pc = "idle" /\ last.op = "nearest"
    /\ Len(nargs.dest) = 1 /\ nargs.max_error = 0 /\ nargs.max_weight = 128
    /\ inserted # <<>>
    => /\ ~last.panic
       /\ Len(last.out) = 1
       /\ Distance(last.out[1], nargs.feature) = MinDistance(nargs.feature)

\* the answer came out of a precision search below a promoted root: it is not
\* an exact match and a farther feature is stored
C3_Witness ==
    /\ NearestReturned
    /\ Len(nargs.dest) = 1 /\ nargs.max_error = 0 /\ nargs.max_weight = 128
    /\ DepthUnder(internals, 0) >= 2
    /\ distance >= 1
    /\ Len(last.out) = 1
    /\ Distance(last.out[1], nargs.feature) = distance
    /\ \E i \in 1..Len(inserted) :
           Distance(inserted[i], nargs.feature) > Distance(last.out[1], nargs.feature)

\* C4: nearest with max_weight = 128, max_error = 0 and a destination of
\* length k returns min(k, len) features, a sub-multiset of the inserted
\* features, at the min(k, len) smallest distances of the stored multiset.
C4_NearestKBest ==
    /\ pc = "idle" /\ last.op = "nearest"
    /\ nargs.max_error = 0 /\ nargs.max_weight = 128
    => /\ ~last.panic
       /\ Len(last.out) = Min(Len(nargs.dest), Len(inserted))
       /\ \A i \in 1..Len(last.out) :
              Count(last.out, last.out[i]) <= Count(inserted, last.out[i])
       /\ \A d \in 0..128 :
              Cardinality({i \in 1..Len(last.out) :
                              Distance(last.out[i], nargs.feature) = d})
              = NearestAt(inserted, nargs.feature, Len(nargs.dest), d)

\* the features of the leaf buckets nearest reaches before its distance loop:
\* those of the root when it is a leaf, else those of the leaves bound in the
\* root under a key within max_weight of the query's weight
RootLeafFeatures(ints, feature, max_weight) ==
    LET root == ints[1]
        near == {i \in 1..Len(root.m) :
                    /\ ints[root.m[i][2] + 1].kind = "Vec"
                    /\ Distance(root.m[i][1], indices128(feature)[0]) <= max_weight}
        RECURSIVE cat(_)
        cat(is) == IF is = {} THEN <<>>
                   ELSE LET i == CHOOSE x \in is : TRUE
                        IN  ints[root.m[i][2] + 1].v \o cat(is \ {i})
    IN  IF root.kind = "Vec" THEN root.v ELSE cat(near)

\* C18: nearest offers every feature of a leaf bucket it reaches to the heap,
\* whatever the feature's own distance: a returned call hands back at least
\* min(k, n) features, n counting the features of the root when it is a leaf
\* and of the leaves bound in the root within max_weight otherwise, and from a
\* leaf root it hands back the min(k, n) nearest of them.  Nothing bounds the
\* distance of a returned feature by max_weight.
C18_LeafFeaturesOfferedWhateverDistance ==
    pc = "idle" /\ last.op = "nearest" =>
        LET reached == RootLeafFeatures(internals, nargs.feature, nargs.max_weight)
        IN  /\ ~last.panic
            /\ Len(last.out) >= Min(Len(nargs.dest), Len(reached))
            /\ internals[1].kind = "Vec" =>
                   \A d \in 0..128 :
                       Cardinality({i \in 1..Len(last.out) :
                                       Distance(last.out[i], nargs.feature) = d})
                       = NearestAt(reached, nargs.feature, Len(nargs.dest), d)

\* below a promoted root, a call returned a feature farther from the query
\* than max_weight
C18_Witness ==
    /\ NearestReturned
    /\ internals[1].kind = "Map"
    /\ \E i \in 1..Len(last.out) :
           Distance(last.out[i], nargs.feature) > nargs.max_weight

\* C6: on a non-empty index, nearest with max_weight = 128, max_error = e and
\* a destination of length 1 returns a feature no farther from the query than
\* the minimum distance over all inserted features plus e.
C6_NearestErrorBound ==
    /\ pc = "idle" /\ last.op = "nearest"
    /\ Len(nargs.dest) = 1 /\ nargs.max_weight = 128
    /\ inserted # <<>>
    => /\ ~last.panic
       /\ Len(last.out) = 1
       /\ Distance(last.out[1], nargs.feature)
              <= MinDistance(nargs.feature) + nargs.max_error

\* a call with a positive max_error returned from a promoted index before the
\* loop reached the distance of its answer
C6_Witness ==
    /\ NearestReturned
    /\ Len(nargs.dest) = 1 /\ nargs.max_weight = 128 /\ nargs.max_error >= 1
    /\ internals[1].kind = "Map"
    /\ Len(last.out) = 1
    /\ distance < Distance(last.out[1], nargs.feature)

\* the buckets of the heap, flattened in distance order
HeapFeatures(h) ==
    LET RECURSIVE flat(_, _)
        flat(lo, hi) == IF lo = hi THEN h.features[lo]
                        ELSE flat(lo, (lo + hi) \div 2) \o flat((lo + hi) \div 2 + 1, hi)
    IN  flat(0, 128)

\* C7: the slice nearest returns lists features in nondecreasing distance from
\* the query, and holds exactly min(|dest|, size) features copied from the heap.
C7_NearestOrdered ==
    pc = "idle" /\ last.op = "nearest" /\ ~last.panic =>
        /\ \A i \in 2..Len(last.out) :
               Distance(last.out[i], nargs.feature)
                   >= Distance(last.out[i - 1], nargs.feature)
        /\ Len(last.out) = Min(Len(nargs.dest), feature_heap.size)
        /\ \A i \in 1..Len(last.out) :
               Count(last.out, last.out[i]) <= Count(HeapFeatures(feature_heap), last.out[i])

\* two features at different distances were returned
C7_Witness ==
    /\ NearestReturned
    /\ Len(last.out) = 2
    /\ Distance(last.out[1], nargs.feature) < Distance(last.out[2], nargs.feature)

-----------------------------------------------------------------------------
(* Frame of the read operations (checked under SpecReads) *)

\* C14: contains, search_radius and every step of nearest leave the node slab
\* and the count as they were; only a step of insert changes them.
C14_ReadsLeaveIndexUnchanged ==
    [][last'.op # "insert" => UNCHANGED <<internals, count>>]_vars

\* on a promoted index a nearest call has returned with features in the heap,
\* and a later contains found its feature
C14_Witness ==
    /\ internals[1].kind = "Map"
    /\ returned # <<>> /\ feature_heap.size > 0
    /\ last.op = "contains" /\ last.found

-----------------------------------------------------------------------------
(* Properties of pairs of nearest calls (checked under SpecMono, SpecTaus) *)

\* two returned calls for the same query on the same index with a destination
\* of length 1 and max_weight = 128
SameQuery(a, b) ==
    /\ a.feature = b.feature /\ a.len = b.len /\ a.taus = b.taus
    /\ a.k = 1 /\ b.k = 1
    /\ a.max_weight = 128 /\ b.max_weight = 128

\* C13: for the same non-empty index and query, with a destination of length 1
\* and max_weight = 128, the feature nearest returns with max_error = e is no
\* farther from the query than the one it returns with max_error = e + 1.
C13_ErrorBudgetMonotone ==
    \A i, j \in 1..Len(returned) :
        /\ SameQuery(returned[i], returned[j])
        /\ returned[i].len > 0
        /\ returned[j].max_error = returned[i].max_error + 1
        => /\ ~returned[i].panic /\ ~returned[j].panic
           /\ Len(returned[i].out) = 1 /\ Len(returned[j].out) = 1
           /\ Distance(returned[i].out[1], returned[i].feature)
                  <= Distance(returned[j].out[1], returned[j].feature)

\* the larger budget made the second call return a strictly farther feature
C13_Witness ==
    \E i, j \in 1..Len(returned) :
        /\ SameQuery(returned[i], returned[j])
        /\ returned[j].max_error = returned[i].max_error + 1
        /\ Len(returned[i].out) = 1 /\ Len(returned[j].out) = 1
        /\ Distance(returned[i].out[1], returned[i].feature)
               < Distance(returned[j].out[1], returned[j].feature)

\* the distances of the features a returned call handed back, in order
Distances(r) == [x \in 1..Len(r.out) |-> Distance(r.out[x], r.feature)]

\* C16: for the same index, query, max_weight and destination length, with
\* max_error = 0, nearest returns the same sequence of distances whatever the
\* thresholds of TABLE_TAUS, that is whether the popped maps are expanded by
\* brute force or by the search_exact kernels.
C16_ThresholdIndependent ==
    \A i, j \in 1..Len(returned) :
        /\ returned[i].feature = returned[j].feature
        /\ returned[i].len = returned[j].len
        /\ returned[i].k = returned[j].k
        /\ returned[i].max_weight = returned[j].max_weight
        /\ returned[i].max_error = 0 /\ returned[j].max_error = 0
        => /\ returned[i].panic = returned[j].panic
           /\ Distances(returned[i]) = Distances(returned[j])

-----------------------------------------------------------------------------
(* Properties of the node queue inside nearest (checked under SpecMono) *)

\* C21: no entry of the node queue sits in a bucket below the cursor `lowest`,
\* where pop never looks: every add_one of nearest is made at a distance no
\* smaller than the shell being drained.
C21_MonotoneDrain ==
    \A d \in 0..128 : d < node_queue.lowest => node_queue.distances[d] = <<>>

-----------------------------------------------------------------------------
(* Properties of the feature heap alone (checked under SpecHeap) *)

\* the distance FeatureHeap::add computes for the i-th offer
OfferDistance(i) == CountOnes(Xor(offered[i], feature_heap.search))

\* the offers made at distance d, and below it
OffersAt(d) == Cardinality({i \in 1..Len(offered) : OfferDistance(i) = d})
OffersBelow(d) == Cardinality({i \in 1..Len(offered) : OfferDistance(i) < d})
OffersWithin(d) == Cardinality({i \in 1..Len(offered) : OfferDistance(i) <= d})

\* how many of the m smallest offered distances equal d
KeptAt(d, m) == Min(OffersAt(d), Max(0, m - OffersBelow(d)))

\* the occupied buckets of the heap
Occupied == {d \in 0..128 : feature_heap.features[d] # <<>>}

\* C22: after reset(k, q) with k >= 1 and any adds, the heap holds at most k
\* features, the distances it holds are the min(k, n) smallest of the n
\* offered (as a multiset), every feature sits in the bucket of its distance,
\* and once it is full `worst` is the highest occupied bucket.
C22_KBestHeap ==
    feature_heap.cap >= 1 =>
        /\ ~feature_heap.panic
        /\ feature_heap.size <= feature_heap.cap
        /\ feature_heap.size = Min(feature_heap.cap, Len(offered))
        /\ \A d \in 0..128 :
               /\ Len(feature_heap.features[d])
                      = KeptAt(d, Min(feature_heap.cap, Len(offered)))
               /\ \A i \in 1..Len(feature_heap.features[d]) :
                      CountOnes(Xor(feature_heap.features[d][i], feature_heap.search)) = d
        /\ feature_heap.size = feature_heap.cap =>
               /\ feature_heap.worst \in Occupied
               /\ \A d \in Occupied : d <= feature_heap.worst

\* more offers than the capacity, one of them evicted from the heap
C22_Witness ==
    /\ feature_heap.cap = 2
    /\ Len(offered) = 4
    /\ feature_heap.size = 2
    /\ OfferDistance(1) > feature_heap.worst
    /\ OfferDistance(4) = 0

\* C23: whenever done() is true the heap holds exactly k features and every
\* one of them is within search_distance; in_search never exceeds the number
\* of offers whose distance is within the current search_distance.
C23_DoneRule ==
    feature_heap.cap >= 1 =>
        /\ ~feature_heap.panic
        /\ feature_heap.in_search <= OffersWithin(feature_heap.search_distance)
        /\ FH_done(feature_heap) =>
               /\ feature_heap.size = feature_heap.cap
               /\ \A d \in Occupied : d <= feature_heap.search_distance

\* the heap is done only since search_distance was raised over a held feature,
\* and it turned away an offer within the search distance
C23_Witness ==
    /\ feature_heap.cap = 2
    /\ FH_done(feature_heap)
    /\ feature_heap.search_distance = 2
    /\ feature_heap.worst = 2
    /\ Len(offered) = 3
    /\ OfferDistance(3) = 2
    /\ feature_heap.in_search = 3

-----------------------------------------------------------------------------
(* Properties of the offers nearest makes (checked under SpecNearest) *)

\* the last nearest call returned, without panicking, with a heap that
\* reports done, and its max_error was 0
ReturnedDone ==
    /\ pc = "idle"
    /\ last.op = "nearest"
    /\ ~last.panic
    /\ nargs.max_error = 0
    /\ FH_done(feature_heap)

\* the features stored when the last nearest call was made
StoredAtCall == {inserted[i] : i \in 1..returned[Len(returned)].len}

Offered == {offered[i] : i \in 1..Len(offered)}

\* C24: with max_error = 0, when nearest returns because the heap is done,
\* every stored feature within the heap's search_distance of the query has been
\* offered to the heap.
C24_OfferedWithinSearchDistance ==
    ReturnedDone =>
        \A f \in StoredAtCall :
            Distance(f, nargs.feature) <= feature_heap.search_distance
                => f \in Offered

\* C24 as the code has it: every stored feature strictly closer than the
\* heap's search_distance has been offered.
C24_OfferedBelowSearchDistance ==
    ReturnedDone =>
        \A f \in StoredAtCall :
            Distance(f, nargs.feature) < feature_heap.search_distance
                => f \in Offered

\* nearest returned done from under a map root in shell 1 or later; a stored
\* feature strictly closer than the search distance exists, and a stored
\* feature no closer than it was never offered
C24_Witness ==
    /\ ReturnedDone
    /\ internals[1].kind = "Map"
    /\ feature_heap.search_distance >= 1
    /\ \E f \in StoredAtCall :
           Distance(f, nargs.feature) < feature_heap.search_distance
    /\ \E g \in StoredAtCall :
           /\ Distance(g, nargs.feature) >= feature_heap.search_distance
           /\ g \notin Offered

-----------------------------------------------------------------------------
(* Properties of the node queue alone (checked under SpecQueue) *)

\* the occupied buckets of a queue
QueueOccupied(q) == {d \in 0..128 : q.distances[d] # <<>>}

QueueMin(q) == CHOOSE d \in QueueOccupied(q) : \A e \in QueueOccupied(q) : d <= e

\* what a step that is a pop does
PopStep ==
    /\ node_queue'.lowest >= node_queue.lowest
    /\ (last'.out = <<>>) <=> (QueueOccupied(node_queue) = {})
    /\ QueueOccupied(node_queue) = {} => node_queue'.distances = node_queue.distances
    /\ QueueOccupied(node_queue) # {} =>
           LET m == QueueMin(node_queue)
           IN  /\ last'.out[1] = m
               /\ \E i \in 1..Len(node_queue.distances[m]) :
                      node_queue.distances[m][i] = <<last'.out[2], last'.out[3]>>
               /\ Len(node_queue'.distances[m]) = Len(node_queue.distances[m]) - 1
               /\ \A i \in 1..Len(node_queue'.distances[m]) :
                      node_queue'.distances[m][i] = node_queue.distances[m][i]
               /\ \A d \in 0..128 :
                      d # m => node_queue'.distances[d] = node_queue.distances[d]

\* what a step that is a distance() does
DistanceStep ==
    /\ node_queue' = node_queue
    /\ last'.out = IF QueueOccupied(node_queue) = {} THEN <<>>
                   ELSE <<QueueMin(node_queue)>>

\* what a step that is a clear does
ClearStep ==
    /\ QueueOccupied(node_queue') = {}
    /\ node_queue'.lowest = 0

\* C25: as long as nothing is added below `lowest`, pop returns an entry of the
\* smallest occupied distance together with that distance, and None exactly
\* when the queue is empty, and never decreases `lowest`; distance() returns the
\* same minimum and leaves the queue alone; clear empties every bucket and
\* resets `lowest` to 0.
C25_QueueDrainsInOrder ==
    [][/\ last'.op = "pop" => PopStep
       /\ last'.op = "distance" => DistanceStep
       /\ last'.op = "clear" => ClearStep]_vars

\* a pop returned the entry at distance 128 after the cursor had moved past
\* lower buckets, and the queue is empty since
C25_Witness ==
    /\ last.op = "pop"
    /\ last.out # <<>>
    /\ last.out[1] = 128
    /\ node_queue.lowest = 128
    /\ QueueOccupied(node_queue) = {}

-----------------------------------------------------------------------------
(* Properties of the shape of the tree (checked under Spec) *)

\* the nodes reachable from `node`, each with the keys on its path from the
\* root, `keys` being the path of `node` itself
RECURSIVE PathsUnder(_, _, _)
PathsUnder(ints, node, keys) ==
    LET n == ints[node + 1]
    IN  {[node |-> node, keys |-> keys]} \cup
        UNION {PathsUnder(ints, n.m[i][2], Append(keys, n.m[i][1])) : i \in 1..Len(n.m)}

Paths == PathsUnder(internals, 0, <<>>)

\* the bindings <<map node, position>> whose child is `node`
ParentsOf(node) ==
    {b \in UNION {{<<p, i>> : i \in 1..Len(internals[p + 1].m)} :
                     p \in 0..(Len(internals) - 1)} :
        internals[b[1] + 1].m[b[2]][2] = node}

\* C26: every feature of a leaf reached through keys k_0 .. k_(d-1) has
\* indices(f)[i] = k_i for every i < d; the keys of a map are distinct; every
\* node but the root is the child of exactly one binding.
C26_PathAgreement ==
    /\ \A p \in Paths :
           \A x \in 1..Len(internals[p.node + 1].v) :
               \A i \in 1..Len(p.keys) :
                   indices128(internals[p.node + 1].v[x])[i - 1] = p.keys[i]
    /\ \A n \in 1..Len(internals) :
           \A i, j \in 1..Len(internals[n].m) :
               internals[n].m[i][1] = internals[n].m[j][1] => i = j
    /\ \A node \in 1..(Len(internals) - 1) : Cardinality(ParentsOf(node)) = 1

\* a leaf two maps below the root, under a map that binds two keys
C26_Witness ==
    \E p \in Paths :
        /\ Len(p.keys) >= 2
        /\ internals[p.node + 1].kind = "Vec"
        /\ internals[p.node + 1].v # <<>>
        /\ \E q \in Paths : /\ q.node # p.node
                            /\ Len(q.keys) = Len(p.keys)
                            /\ SubSeq(q.keys, 1, Len(q.keys) - 1)
                                   = SubSeq(p.keys, 1, Len(p.keys) - 1)

\* C27: after every insert, every leaf less than 8 maps below the root holds
\* at most TAU features, the leaves a promotion creates included.
C27_LeafCapacity ==
    \A p \in Paths :
        Len(p.keys) < 8 => Len(internals[p.node + 1].v) <= TAU

\* C28: no node lies deeper than 8 maps below the root, every node at depth 8
\* is a leaf, every map binds at least one key, a map never turns back into a
\* leaf, and insert never reaches its panic at the bottom of the tree.
C28_DepthBound ==
    /\ [](/\ \A p \in Paths :
                 /\ Len(p.keys) <= 8
                 /\ Len(p.keys) = 8 => internals[p.node + 1].kind = "Vec"
          /\ \A n \in 1..Len(internals) :
                 internals[n].kind = "Map" => Len(internals[n].m) >= 1
          /\ last.op = "insert" => ~last.panic)
    /\ [][/\ Len(internals') >= Len(internals)
          /\ \A n \in 1..Len(internals) :
                 internals[n].kind = "Map" => internals'[n].kind = "Map"]_vars

\* an insert walked all eight maps down and pushed into the leaf at depth 8,
\* which was already over TAU
C28_Witness ==
    /\ last.op = "insert"
    /\ \E p \in Paths :
           /\ Len(p.keys) = 8
           /\ Len(internals[p.node + 1].v) >= TAU + 9

-----------------------------------------------------------------------------
(* Properties of the scratch structures (checked under SpecScratch) *)

\* C29: what nearest returns depends only on the index, the query, max_weight,
\* max_error and the length of dest: two calls with these equal return the same
\* slice, whether the queue and the heap were fresh or left by another call.
C29_ScratchIndependent ==
    \A i, j \in 1..Len(returned) :
        (/\ returned[i].feature = returned[j].feature
         /\ returned[i].max_weight = returned[j].max_weight
         /\ returned[i].max_error = returned[j].max_error
         /\ returned[i].k = returned[j].k
         /\ returned[i].len = returned[j].len)
            => /\ returned[i].out = returned[j].out
               /\ returned[i].panic = returned[j].panic

\* the third call repeated the first on the scratch of a second call that had
\* searched a map root for another query and returned something else
C29_Witness ==
    /\ Len(returned) = 3
    /\ internals[1].kind = "Map"
    /\ returned[2].feature # returned[1].feature
    /\ returned[2].out # returned[3].out
    /\ returned[2].out # <<>>
    /\ returned[3].out # <<>>
    /\ returned[3].k = 1

-----------------------------------------------------------------------------
(* Termination of nearest (checked under SpecNearestRuns) *)

\* C30: every nearest call returns, and none panics.
C30_NearestReturns ==
    /\ [](last.op = "nearest" => ~last.panic)
    /\ (pc # "idle") ~> (pc = "idle")

\* a call over a map root went through every shell up to 128 and returned
\* with dest not filled
C30_Witness ==
    /\ pc = "idle"
    /\ last.op = "nearest"
    /\ ~last.panic
    /\ internals[1].kind = "Map"
    /\ distance = 128
    /\ Len(last.out) < Len(nargs.dest)

=============================================================================
